---- MODULE Spec2Model ----
(***************************************************************************)
(* AutoFinance AI Agent: the conversational workflows of the repository.   *)
(*                                                                         *)
(* The repository holds three workflows over three state schemas:          *)
(*   - MyAgent (agent.py): router / search_param / check_confirmation /    *)
(*     market_search / respond / reset over a dict state;                  *)
(*   - the AgentState workflow (models.py, nodes/router.py route_initial): *)
(*     search_param_node, profiling_logic_node, policy_rag_node,           *)
(*     quotation_node, submission_node, status_check_node;                 *)
(*   - the AutoFinanceState workflow (state.py): profiling_node,           *)
(*     lead_capture_node, where current_phase names the next handler.      *)
(* Each has its own variables, initial state and specification.            *)
(***************************************************************************)
EXTENDS Integers, Sequences, FiniteSets, TLC

\* an Optional field: None is the empty sequence, a value v is held as <<v>>
None == <<>>
Some(v) == <<v>>

\* ---------------------------------------------------------------- bounds
\* longest listing sequence the search collaborator / parser returns
MaxListings == 2

\* longest vehicle list the LLM parser of search_market returns
MaxParsed == 6

\* most rows the application store takes in one conversation
MaxApplications == 2

\* ------------------------------------------------------------ value sets
Makes == {"Toyota", "Honda"}
PriceCaps == {"no_cap", "500000"}
\* models.SearchParams (make, price_cap; the other optional fields behave alike)
SearchParamsSet == [make : Makes, price_cap : PriceCaps]

\* vehicles a listing can hold (models.Vehicle: year, price): a recent and an old one
VehicleSet == {[year |-> 2024, price |-> 400000], [year |-> 2012, price |-> 400000]}

RECURSIVE SeqsUpTo(_, _)
SeqsUpTo(S, n) ==
    IF n = 0 THEN {<<>>}
    ELSE LET shorter == SeqsUpTo(S, n - 1)
         IN shorter \cup {Append(s, x) : s \in {t \in shorter : Len(t) = n - 1}, x \in S}

Listings == SeqsUpTo(VehicleSet, MaxListings)

\* models.Vehicle puts no constraint on price: the results of the AgentState
\* workflow include a search that found one listing whose price came out as zero
ZeroPricedVehicle == [year |-> 2024, price |-> 0]
FlowListings == Listings \cup {<<ZeroPricedVehicle>>}

\* VehicleList.vehicles as the LLM parser of search_market returns it
ParsedVehicles == SeqsUpTo(VehicleSet, MaxParsed)

\* the most listings a search is to keep (max_results of tools/tavily_search,
\* data[:5] of execute_search)
MaxResults == 5

(***************************************************************************)
(* MyAgent (agent.py)                                                      *)
(***************************************************************************)
VARIABLES
    pc,               \* node of the MyAgent graph about to run; "END" between turns
    events,           \* nodes that ran in the current turn (_execute_graph_sync events)
    next_node,        \* state["_next_node"]
    search_params,    \* state["search_params"]
    search_confirmed, \* state["search_confirmed"]
    search_results,   \* state["search_results"]
    confirm_intent,   \* last intent check_confirmation obtained ("none" before any)
    reply,            \* kind of the last AIMessage appended to messages
    turn_error,       \* the last turn was aborted by an exception of the graph
    turn_start        \* the persisted search fields the current turn started from

avars == <<pc, events, next_node, search_params, search_confirmed, search_results,
           confirm_intent, reply, turn_error, turn_start>>

(***************************************************************************)
(* State of the AgentState workflow and of the AutoFinanceState workflow   *)
(***************************************************************************)
VARIABLES
    state,            \* models.AgentState of the thread (between turns)
    applications,     \* rows create_application inserted so far
    last_route,       \* what route_initial returned for the last turn
    flow_error        \* whether the last turn ended with an exception instead of a reply

fvars == <<state, applications, last_route, flow_error>>

VARIABLES
    af,               \* state.AutoFinanceState of the thread (between turns)
    saved,            \* rows save_application inserted so far
    last_node         \* the handler that ended the last turn

lvars == <<af, saved, last_node>>

(***************************************************************************)
(* Requests being served (custom.py) and the checkpointer's threads        *)
(***************************************************************************)
VARIABLES
    reqs,             \* per slot of the host: the streaming request it is serving
    checkpoints,      \* the checkpointer: thread_id -> last state a graph run saved
    acted             \* thread id sent by the request whose task the executor ran last

svars == <<reqs, checkpoints, acted>>

(***************************************************************************)
(* Calls of the calculator tools (tools/installment_calculator.py,         *)
(* tools/calculator.py)                                                    *)
(***************************************************************************)
VARIABLES
    quote_call,       \* the last call if of calculate_monthly_installment: arguments, outcome
    afford_call,      \* the last call if of check_affordability: arguments, outcome
    options_call      \* the last call if of calculate_loan_options (one policy)

cvars == <<quote_call, afford_call, options_call>>

vars == <<avars, fvars, lvars, svars, cvars>>

\* what the router's LLM answers, and what route_intent makes of it
RouterIntents == {"search", "reset", "chat"}

route_intent(intent) ==
    CASE intent = "search" -> "search_param"
      [] intent = "reset" -> "reset"
      [] OTHER -> "respond"

\* confirmation.ConfirmationIntent, plus the classifier call raising
ConfirmationOutcomes == {"confirmed", "cancelled", "unclear", "error"}

\* MyAgent._route_decision
RouteDecisionResetIgnored(params, confirmed, nxt) ==
    IF params # None /\ ~confirmed THEN "check_confirmation"
    ELSE IF params # None /\ confirmed THEN "market_search"
    ELSE nxt

RouteDecisionRouterFirst(params, confirmed, nxt) ==
    IF nxt = "reset" THEN "reset"
    ELSE IF nxt = "search_param" THEN "search_param"
    ELSE IF params # None /\ ~confirmed THEN "check_confirmation"
    ELSE IF params # None /\ confirmed THEN "market_search"
    ELSE nxt

RouteDecisionFollowsRouterOnceConfirmed(params, confirmed, nxt) ==
    IF nxt = "reset" THEN "reset"
    ELSE IF params # None /\ ~confirmed THEN "check_confirmation"
    ELSE nxt

RouteDecision(params, confirmed, nxt) ==
    IF nxt = "reset" THEN "reset"
    ELSE IF params # None /\ ~confirmed THEN "check_confirmation"
    ELSE IF params # None /\ confirmed THEN "market_search"
    ELSE nxt

\* confirmation.should_execute_search
ShouldExecuteUnconfirmed(params, confirmed) ==
    IF params # None THEN "market_search" ELSE "respond"

should_execute_search(params, confirmed) ==
    IF params # None /\ confirmed THEN "market_search" ELSE "respond"

\* the path map of add_conditional_edges("check_confirmation", ...)
ConfirmationEdges ==
    [e \in {"market_search", "end"} |-> IF e = "end" THEN "END" ELSE e]

InitAgent ==
    /\ pc = "END"
    /\ events = <<>>
    /\ next_node = "respond"
    /\ search_params = None
    /\ search_confirmed = FALSE
    /\ search_results = <<>>
    /\ confirm_intent = "none"
    /\ reply = "none"
    /\ turn_error = FALSE
    /\ turn_start = [search_params |-> None, search_confirmed |-> FALSE,
                     search_results |-> <<>>]

\* a request arrives: the human message is appended and the graph starts at router
UserMessage ==
    /\ UNCHANGED <<svars, fvars, lvars, cvars>>
    /\ pc = "END"
    /\ pc' = "router"
    /\ events' = <<>>
    /\ turn_error' = FALSE
    /\ turn_start' = [search_params |-> search_params,
                      search_confirmed |-> search_confirmed,
                      search_results |-> search_results]
    /\ UNCHANGED <<next_node, search_params, search_confirmed, search_results,
                   confirm_intent, reply>>

\* node "router" (MyAgent._route_intent) and its conditional edge (_route_decision)
Router ==
    /\ UNCHANGED <<svars, fvars, lvars, cvars, turn_start>>
    /\ pc = "router"
    /\ \E intent \in RouterIntents :
          /\ next_node' = route_intent(intent)
          /\ pc' = RouteDecision(search_params, search_confirmed, route_intent(intent))
    /\ events' = Append(events, "router")
    /\ UNCHANGED <<search_params, search_confirmed, search_results, confirm_intent,
                   reply, turn_error>>

\* node "search_param" (extract_search_params), then END
SearchParam ==
    /\ UNCHANGED <<svars, fvars, lvars, cvars, turn_start>>
    /\ pc = "search_param"
    /\ \E p \in SearchParamsSet : search_params' = Some(p)
    /\ reply' = "confirm_prompt"
    /\ events' = Append(events, "search_param")
    /\ pc' = "END"
    /\ UNCHANGED <<next_node, search_confirmed, search_results, confirm_intent, turn_error>>

\* the state update check_confirmation returns for an intent
ConfirmationUpdate(intent) ==
    CASE intent = "confirmed" ->
            [search_confirmed |-> TRUE, search_params |-> search_params, reply |-> reply]
      [] intent = "cancelled" ->
            [search_confirmed |-> FALSE, search_params |-> None, reply |-> "cancelled_ack"]
      [] intent = "unclear" ->
            [search_confirmed |-> FALSE, search_params |-> search_params,
             reply |-> "unclear_prompt"]
      [] OTHER ->
            [search_confirmed |-> FALSE, search_params |-> search_params,
             reply |-> "error_prompt"]

\* node "check_confirmation" and its conditional edge (_should_execute_search): the
\* edge function reads the state with the node's update applied; a result that the
\* path map does not hold raises in the graph, the step's writes are not applied
\* and the turn ends with the exception
CheckConfirmation ==
    /\ UNCHANGED <<svars, fvars, lvars, cvars, turn_start>>
    /\ pc = "check_confirmation"
    /\ \E intent \in ConfirmationOutcomes :
          LET upd == ConfirmationUpdate(intent)
              edge == should_execute_search(upd.search_params, upd.search_confirmed)
          IN /\ confirm_intent' = intent
             /\ IF edge \in DOMAIN ConfirmationEdges
                THEN /\ search_confirmed' = upd.search_confirmed
                     /\ search_params' = upd.search_params
                     /\ reply' = upd.reply
                     /\ pc' = ConfirmationEdges[edge]
                     /\ turn_error' = FALSE
                ELSE /\ UNCHANGED <<search_confirmed, search_params, reply>>
                     /\ pc' = "END"
                     /\ turn_error' = TRUE
    /\ events' = Append(events, "check_confirmation")
    /\ UNCHANGED <<next_node, search_results>>

\* node "market_search" (search_market), then respond
MarketSearch ==
    /\ UNCHANGED <<svars, fvars, lvars, cvars, turn_start>>
    /\ pc = "market_search"
    /\ IF search_params = None
       THEN /\ reply' = "no_params"
            /\ UNCHANGED <<search_results, search_confirmed>>
       ELSE \/ /\ search_results' = <<>>          \* the tool returned "Error..."
               /\ search_confirmed' = TRUE
               /\ reply' = "search_failed"
            \/ \E vehicles \in ParsedVehicles :    \* parsed listings (none on a parse error)
                  /\ search_results' = vehicles
                  /\ search_confirmed' = TRUE
                  /\ reply' = IF vehicles # <<>> THEN "found" ELSE "not_found"
    /\ events' = Append(events, "market_search")
    /\ pc' = "respond"
    /\ UNCHANGED <<next_node, search_params, confirm_intent, turn_error>>

\* node "respond", then END
Respond ==
    /\ UNCHANGED <<svars, fvars, lvars, cvars, turn_start>>
    /\ pc = "respond"
    /\ reply' = "chat"
    /\ events' = Append(events, "respond")
    /\ pc' = "END"
    /\ UNCHANGED <<next_node, search_params, search_confirmed, search_results,
                   confirm_intent, turn_error>>

\* node "reset" (reset_state), then END
ResetKeepsListings ==
    /\ UNCHANGED <<svars, fvars, lvars, cvars, turn_start>>
    /\ pc = "reset"
    /\ search_params' = None
    /\ search_confirmed' = FALSE
    /\ reply' = "reset_ack"
    /\ events' = Append(events, "reset")
    /\ pc' = "END"
    /\ UNCHANGED <<next_node, confirm_intent, turn_error, search_results>>

ResetKeepsCriteria ==
    /\ UNCHANGED <<svars, fvars, lvars, cvars, turn_start>>
    /\ pc = "reset"
    /\ search_results' = <<>>
    /\ reply' = "reset_ack"
    /\ events' = Append(events, "reset")
    /\ pc' = "END"
    /\ UNCHANGED <<next_node, confirm_intent, turn_error, search_params, search_confirmed>>

ResetState ==
    /\ UNCHANGED <<svars, fvars, lvars, cvars, turn_start>>
    /\ pc = "reset"
    /\ search_params' = None
    /\ search_results' = <<>>
    /\ search_confirmed' = FALSE
    /\ reply' = "reset_ack"
    /\ events' = Append(events, "reset")
    /\ pc' = "END"
    /\ UNCHANGED <<next_node, confirm_intent, turn_error>>

NextAgent ==
    \/ UserMessage
    \/ Router
    \/ SearchParam
    \/ CheckConfirmation
    \/ MarketSearch
    \/ Respond
    \/ ResetState

(***************************************************************************)
(* The AgentState workflow (models.py, nodes/router.py, nodes/*.py)        *)
(***************************************************************************)
EmploymentTypes == {"salaried", "self_employed"}
\* monthly incomes a message can state (profiling_logic._extract_income keeps
\* values between 1,000 and 500,000)
Incomes == {5000, 12000, 30000}

\* datetime.now().year in tools/policy_rag.get_vehicle_age
CurrentYear == 2026

\* config.default_loan_tenure_months
DefaultLoanTenureMonths == 60

\* tools/policy_rag.FALLBACK_POLICIES: interest in basis points, ratio in percent
FALLBACK_POLICIES ==
    [e \in {"corporate", "salaried", "self_employed", "other"} |->
        CASE e = "corporate" ->
               [interest_rate |-> 1600, max_tenure_months |-> 84,
                max_debt_burden_ratio |-> 55, min_income |-> 8000, max_vehicle_age |-> 10]
          [] e = "salaried" ->
               [interest_rate |-> 1800, max_tenure_months |-> 72,
                max_debt_burden_ratio |-> 50, min_income |-> 6000, max_vehicle_age |-> 10]
          [] e = "self_employed" ->
               [interest_rate |-> 2000, max_tenure_months |-> 60,
                max_debt_burden_ratio |-> 45, min_income |-> 10000, max_vehicle_age |-> 8]
          [] OTHER ->
               [interest_rate |-> 2200, max_tenure_months |-> 48,
                max_debt_burden_ratio |-> 40, min_income |-> 15000, max_vehicle_age |-> 7]]

get_vehicle_age(vehicle) == CurrentYear - vehicle.year

\* retrieve_credit_policy testing the vehicle age before the income
RetrievePolicyAgeFirst(employment_type, monthly_income, vehicle) ==
    LET policy_params == FALLBACK_POLICIES[employment_type]
        vehicle_age == get_vehicle_age(vehicle)
        rejection == IF vehicle_age > policy_params.max_vehicle_age
                     THEN Some([criterion |-> "vehicle_age",
                                limit |-> policy_params.max_vehicle_age,
                                actual |-> vehicle_age])
                     ELSE IF monthly_income < policy_params.min_income
                     THEN Some([criterion |-> "income", limit |-> policy_params.min_income,
                                actual |-> monthly_income])
                     ELSE None
    IN [interest_rate |-> policy_params.interest_rate,
        max_tenure_months |-> policy_params.max_tenure_months,
        max_debt_burden_ratio |-> policy_params.max_debt_burden_ratio,
        min_income |-> policy_params.min_income,
        max_vehicle_age |-> policy_params.max_vehicle_age,
        is_eligible |-> (rejection = None),
        rejection_reason |-> rejection]

\* tools/policy_rag.retrieve_credit_policy; rejection_reason holds what the message
\* names: the failing criterion, the policy's limit and the applicant's value
\* (whole EGP and whole years, which the ',.0f' formatting prints as they are)
retrieve_credit_policy(employment_type, monthly_income, vehicle) ==
    LET policy_params == FALLBACK_POLICIES[employment_type]
        vehicle_age == get_vehicle_age(vehicle)
        rejection == IF monthly_income < policy_params.min_income
                     THEN Some([criterion |-> "income", limit |-> policy_params.min_income,
                                actual |-> monthly_income])
                     ELSE IF vehicle_age > policy_params.max_vehicle_age
                     THEN Some([criterion |-> "vehicle_age",
                                limit |-> policy_params.max_vehicle_age,
                                actual |-> vehicle_age])
                     ELSE None
    IN [interest_rate |-> policy_params.interest_rate,
        max_tenure_months |-> policy_params.max_tenure_months,
        max_debt_burden_ratio |-> policy_params.max_debt_burden_ratio,
        min_income |-> policy_params.min_income,
        max_vehicle_age |-> policy_params.max_vehicle_age,
        is_eligible |-> (rejection = None),
        rejection_reason |-> rejection]

Min(a, b) == IF a <= b THEN a ELSE b

\* (1 + r)^n in ten-thousandths, r the monthly rate in ten-thousandths
RECURSIVE Compound(_, _)
Compound(r, n) == IF n = 0 THEN 10000 ELSE (Compound(r, n - 1) * (10000 + r)) \div 10000

\* a validation that lets a principal of zero through
CalculateRaisesAcceptsZeroPrincipal(principal, annual_interest_rate, tenure_months) ==
    principal < 0 \/ annual_interest_rate < 0 \/ tenure_months <= 0

\* tools/installment_calculator.calculate_monthly_installment: the inputs for which
\* it raises ValueError
calculate_raises(principal, annual_interest_rate, tenure_months) ==
    principal <= 0 \/ annual_interest_rate < 0 \/ tenure_months <= 0

\* tools/installment_calculator.calculate_monthly_installment on valid inputs:
\* P * r(1+r)^n / ((1+r)^n - 1), or P / n at a zero rate, in whole EGP
calculate_monthly_installment(principal, annual_interest_rate, tenure_months) ==
    LET r == annual_interest_rate \div 12
        c == Compound(r, tenure_months)
        monthly_installment ==
            IF annual_interest_rate = 0 THEN principal \div tenure_months
            ELSE (principal * ((r * c * 10) \div (c - 10000))) \div 100000
    IN [principal |-> principal, interest_rate |-> annual_interest_rate,
        tenure_months |-> tenure_months, monthly_installment |-> monthly_installment]

\* an affordability check whose limit is exclusive
CheckAffordabilityExclusive(monthly_installment, monthly_income, max_debt_burden_ratio) ==
    IF monthly_income <= 0 THEN FALSE
    ELSE monthly_installment * 100 < max_debt_burden_ratio * monthly_income

\* tools/installment_calculator.check_affordability
check_affordability(monthly_installment, monthly_income, max_debt_burden_ratio) ==
    IF monthly_income <= 0 THEN FALSE
    ELSE monthly_installment * 100 <= max_debt_burden_ratio * monthly_income

\* what the patterns of nodes/router.py find in the last human message: how it
\* starts (_is_confirmation, _is_rejection and _is_closing_intent are anchored at
\* the start and exclude each other) and whether a status-check phrase occurs
Heads == {"confirm", "reject", "closing", "other"}
FlowMessages == [head : Heads, status : BOOLEAN]

\* nodes/router.route_initial (the last message is the human message of the turn)
route_initial(s, m) ==
    IF s.request_id # None /\ m.head = "closing" THEN "END"
    ELSE IF m.status THEN "status_check"
    ELSE IF s.awaiting_confirmation # None /\ m.head = "confirm"
              /\ s.awaiting_confirmation = Some("search") THEN "market_search"
    ELSE IF s.awaiting_confirmation # None /\ m.head = "confirm"
              /\ s.awaiting_confirmation = Some("quote") THEN "submission"
    ELSE IF s.awaiting_confirmation # None /\ m.head = "reject" THEN "search_param"
    ELSE CASE s.current_phase = "onboarding" -> "router"
           [] s.current_phase = "discovery" -> "search_param"
           [] s.current_phase = "profiling" -> "profiling_logic"
           [] s.current_phase = "quotation" -> "quotation"
           [] s.current_phase = "submission" -> "submission"
           [] s.current_phase = "completed" -> "END"
           [] OTHER -> "router"

\* AgentState() as models.py constructs it; messages holds how many messages the
\* thread has, counted up to two (router_node only asks whether there is more than one)
InitFlow ==
    /\ state = [current_phase |-> "onboarding", messages |-> 0, reply |-> "none",
                search_params |-> None, search_params_confirmed |-> FALSE,
                search_results |-> <<>>, selected_vehicle |-> None,
                monthly_income |-> None, employment_type |-> None,
                applicable_policy |-> None, financial_quote |-> None,
                customer_info |-> None, request_id |-> None,
                awaiting_confirmation |-> None, error_message |-> FALSE]
    /\ applications = 0
    /\ last_route = "none"
    /\ flow_error = FALSE

\* add_messages: one more message in the thread
AddMessage(s) == [s EXCEPT !.messages = IF s.messages >= 2 THEN 2 ELSE s.messages + 1]

\* a node's AIMessage is appended
Say(s, kind) == [AddMessage(s) EXCEPT !.reply = kind]

\* nodes/router.router_node
router_node(s, m) ==
    IF s.request_id # None /\ m.head = "closing" THEN Say(s, "thanks")
    ELSE IF s.request_id # None /\ m.status THEN s
    ELSE IF s.current_phase = "onboarding" /\ s.messages <= 1
         THEN [Say(s, "welcome") EXCEPT !.current_phase = "discovery"]
         ELSE s

\* nodes/search_param.search_param_node, for the parameters the extraction yields
search_param_node(s, p) ==
    [Say(s, "confirm_search") EXCEPT !.search_params = Some(p),
                                      !.search_params_confirmed = FALSE,
                                      !.awaiting_confirmation = Some("search"),
                                      !.current_phase = "discovery"]

\* the market search node of this workflow: the confirmed search runs, the pending
\* confirmation is cleared, listings move the conversation to profiling and an
\* empty result leaves it in discovery
market_search_node(s, vehicles) ==
    [Say(s, IF vehicles = <<>> THEN "not_found" ELSE "found") EXCEPT
        !.search_results = vehicles,
        !.search_params_confirmed = TRUE,
        !.awaiting_confirmation = None,
        !.current_phase = IF vehicles = <<>> THEN "discovery" ELSE "profiling"]

\* a selection that does not compare the position with the length of the list
ExtractVehicleSelectionUnbounded(s, pick) ==
    IF pick >= 1
    THEN IF pick <= Len(s.search_results) THEN Some(s.search_results[pick])
         ELSE Some(ZeroPricedVehicle)
    ELSE None

\* nodes/profiling_logic._extract_vehicle_selection: the listing the message picks
\* by its 1-based position (0: the message picks none)
extract_vehicle_selection(s, pick) ==
    IF pick >= 1 /\ pick <= Len(s.search_results) THEN Some(s.search_results[pick])
    ELSE None

\* nodes/profiling_logic._extract_financial_data: only fields still None are filled
extract_financial_data(s, income, employment) ==
    [s EXCEPT !.monthly_income = IF s.monthly_income = None THEN income ELSE @,
              !.employment_type = IF s.employment_type = None THEN employment ELSE @]

\* nodes/profiling_logic.profiling_logic_node
profiling_logic_node(s, pick, income, employment) ==
    LET selected == extract_vehicle_selection(s, pick)
        updated == extract_financial_data(s, income, employment)
    IN IF s.selected_vehicle = None /\ s.search_results # <<>> /\ selected # None
       THEN [s EXCEPT !.selected_vehicle = selected, !.current_phase = "profiling"]
       ELSE IF updated # s THEN updated
       ELSE [s EXCEPT !.current_phase = "profiling"]

\* route_profiling without its employment check
RouteProfilingSkipsEmployment(s) ==
    IF s.selected_vehicle = None THEN "ask_income"
    ELSE IF s.monthly_income = None THEN "ask_income"
    ELSE "policy_rag"

\* nodes/profiling_logic.route_profiling
route_profiling(s) ==
    IF s.selected_vehicle = None THEN "ask_income"
    ELSE IF s.monthly_income = None THEN "ask_income"
    ELSE IF s.employment_type = None THEN "ask_employment"
    ELSE "policy_rag"

\* nodes/ask_questions.ask_income_node
ask_income_node(s) ==
    IF s.selected_vehicle = None /\ s.search_results # <<>>
    THEN [Say(s, "select_vehicle") EXCEPT !.current_phase = "profiling"]
    ELSE IF s.selected_vehicle = None
    THEN [Say(s, "no_vehicle") EXCEPT !.current_phase = "discovery"]
    ELSE [Say(s, "ask_income") EXCEPT !.current_phase = "profiling"]

\* nodes/ask_questions.ask_employment_node
ask_employment_node(s) == [Say(s, "ask_employment") EXCEPT !.current_phase = "profiling"]

\* nodes/policy_rag.policy_rag_node
policy_rag_node(s) ==
    IF s.selected_vehicle = None
    THEN [Say(s, "no_vehicle") EXCEPT !.current_phase = "discovery"]
    ELSE IF s.monthly_income = None THEN Say(s, "no_income")
    ELSE IF s.employment_type = None THEN Say(s, "no_employment")
    ELSE LET policy == retrieve_credit_policy(s.employment_type[1], s.monthly_income[1],
                                              s.selected_vehicle[1])
         IN IF policy.is_eligible
            THEN [Say(s, "eligible") EXCEPT !.applicable_policy = Some(policy),
                                            !.current_phase = "quotation"]
            ELSE [Say(s, "not_eligible") EXCEPT !.applicable_policy = Some(policy),
                                                !.current_phase = "discovery"]

\* nodes/quotation.quotation_node: whether its call of the calculator raises; the
\* node has no handler, so the ValueError leaves it
quotation_raises(s) ==
    /\ s.selected_vehicle # None
    /\ s.applicable_policy # None
    /\ calculate_raises(s.selected_vehicle[1].price, s.applicable_policy[1].interest_rate,
                        Min(s.applicable_policy[1].max_tenure_months, DefaultLoanTenureMonths))

\* quotation_node asking for confirmation of a quote that is not affordable as well
QuotationAlwaysAwaits(s) ==
    IF s.selected_vehicle = None
    THEN [Say(s, "no_vehicle") EXCEPT !.current_phase = "discovery"]
    ELSE IF s.applicable_policy = None
    THEN [Say(s, "no_policy") EXCEPT !.current_phase = "profiling"]
    ELSE LET policy == s.applicable_policy[1]
             monthly_income == IF s.monthly_income = None THEN 0 ELSE s.monthly_income[1]
             tenure_months == Min(policy.max_tenure_months, DefaultLoanTenureMonths)
             quote == calculate_monthly_installment(s.selected_vehicle[1].price,
                                                    policy.interest_rate, tenure_months)
         IN IF ~check_affordability(quote.monthly_installment, monthly_income,
                                    policy.max_debt_burden_ratio)
            THEN [Say(s, "not_affordable") EXCEPT !.financial_quote = Some(quote),
                                                  !.awaiting_confirmation = Some("quote"),
                                                  !.current_phase = "quotation"]
            ELSE [Say(s, "quote") EXCEPT !.financial_quote = Some(quote),
                                         !.awaiting_confirmation = Some("quote"),
                                         !.current_phase = "quotation"]

\* nodes/quotation.quotation_node when the calculator returns
quotation_node(s) ==
    IF s.selected_vehicle = None
    THEN [Say(s, "no_vehicle") EXCEPT !.current_phase = "discovery"]
    ELSE IF s.applicable_policy = None
    THEN [Say(s, "no_policy") EXCEPT !.current_phase = "profiling"]
    ELSE LET policy == s.applicable_policy[1]
             monthly_income == IF s.monthly_income = None THEN 0 ELSE s.monthly_income[1]
             tenure_months == Min(policy.max_tenure_months, DefaultLoanTenureMonths)
             quote == calculate_monthly_installment(s.selected_vehicle[1].price,
                                                    policy.interest_rate, tenure_months)
         IN IF ~check_affordability(quote.monthly_installment, monthly_income,
                                    policy.max_debt_burden_ratio)
            THEN [Say(s, "not_affordable") EXCEPT !.financial_quote = Some(quote),
                                                  !.current_phase = "quotation"]
            ELSE [Say(s, "quote") EXCEPT !.financial_quote = Some(quote),
                                         !.awaiting_confirmation = Some("quote"),
                                         !.current_phase = "quotation"]

\* nodes/submission._submit_application, for the customer info at hand: created is
\* whether create_application returned (it raises when the store is unreachable),
\* new_id the request id it generated
SubmitApplicationWithoutQuoteCheck(s, customer_info, created, new_id) ==
    IF customer_info = None \/ s.selected_vehicle = None
    THEN Say(s, "missing_information")
    ELSE IF created
    THEN [Say(s, "submitted") EXCEPT !.request_id = Some(new_id),
                                     !.current_phase = "completed"]
    ELSE [Say(s, "submit_failed") EXCEPT !.error_message = TRUE]

submit_application(s, customer_info, created, new_id) ==
    IF customer_info = None \/ s.selected_vehicle = None \/ s.financial_quote = None
    THEN Say(s, "missing_information")
    ELSE IF created
    THEN [Say(s, "submitted") EXCEPT !.request_id = Some(new_id),
                                     !.current_phase = "completed"]
    ELSE [Say(s, "submit_failed") EXCEPT !.error_message = TRUE]

\* whether submission_node gets as far as calling create_application
SubmissionCreates(s, contact) ==
    /\ s.customer_info # None \/ contact
    /\ s.selected_vehicle # None
    /\ s.financial_quote # None

\* nodes/submission.submission_node: contact is whether _extract_customer_info finds
\* name, email and phone in the message; the extracted info lives in a copy of the
\* state and is not part of the update
submission_node(s, contact, created, new_id) ==
    IF s.customer_info # None THEN submit_application(s, s.customer_info, created, new_id)
    ELSE IF contact THEN submit_application(s, Some("contact"), created, new_id)
    ELSE [Say(s, "ask_contact") EXCEPT !.current_phase = "submission"]

\* what the lookup of status_check_node comes to: the message holds no request
\* id, the application is found, none is found, get_application_status raises
StatusLookups == {"no_id", "found", "not_found", "failed"}

\* status_check_node moving the conversation on as the welcome of router_node does
StatusCheckStartsDiscovery(s, lookup) ==
    CASE lookup = "no_id" -> [Say(s, "status_ask_id") EXCEPT !.current_phase = "discovery"]
      [] lookup = "found" -> [Say(s, "status") EXCEPT !.current_phase = "discovery"]
      [] lookup = "not_found" ->
            [Say(s, "status_not_found") EXCEPT !.current_phase = "discovery"]
      [] OTHER -> [Say(s, "status_error") EXCEPT !.error_message = TRUE,
                                                 !.current_phase = "discovery"]

\* nodes/status_check.status_check_node
status_check_node(s, lookup) ==
    CASE lookup = "no_id" -> Say(s, "status_ask_id")
      [] lookup = "found" -> Say(s, "status")
      [] lookup = "not_found" -> Say(s, "status_not_found")
      [] OTHER -> [Say(s, "status_error") EXCEPT !.error_message = TRUE]

\* One turn of the workflow: the human message is appended, route_initial picks the
\* node at the entry point, the node (for profiling_logic, the node route_profiling
\* picks after it as well) runs and the turn ends.
Routed(m, route) ==
    /\ route_initial(AddMessage(state), m) = route
    /\ last_route' = route
    /\ UNCHANGED <<avars, lvars, svars, cvars>>

FlowRouter ==
    \E m \in FlowMessages :
       /\ Routed(m, "router")
       /\ state' = router_node(AddMessage(state), m)
       /\ UNCHANGED applications
       /\ flow_error' = FALSE

\* a turn whose node does not read how the message was classified: some message
\* makes route_initial pick the route
RoutedTo(route) ==
    /\ \E m \in FlowMessages : route_initial(AddMessage(state), m) = route
    /\ last_route' = route
    /\ UNCHANGED <<avars, lvars, svars, cvars>>

\* the criteria search_param_node extracts in this workflow: two makes, no cap
FlowParams == {p \in SearchParamsSet : p.price_cap = "no_cap"}

FlowSearchParam ==
    \E p \in FlowParams :
       /\ RoutedTo("search_param")
       /\ state' = search_param_node(AddMessage(state), p)
       /\ UNCHANGED applications
       /\ flow_error' = FALSE

FlowMarketSearch ==
    \E vehicles \in FlowListings :
       /\ RoutedTo("market_search")
       /\ state' = market_search_node(AddMessage(state), vehicles)
       /\ UNCHANGED applications
       /\ flow_error' = FALSE

FlowProfiling ==
    \E pick \in 0..MaxListings,
       income \in {None} \cup {Some(i) : i \in Incomes},
       employment \in {None} \cup {Some(e) : e \in EmploymentTypes} :
       /\ RoutedTo("profiling_logic")
       /\ LET s == profiling_logic_node(AddMessage(state), pick, income, employment)
          IN state' = CASE route_profiling(s) = "ask_income" -> ask_income_node(s)
                        [] route_profiling(s) = "ask_employment" -> ask_employment_node(s)
                        [] OTHER -> policy_rag_node(s)
       /\ UNCHANGED applications
       /\ flow_error' = FALSE

FlowQuotation ==
    /\ RoutedTo("quotation")
    /\ LET s == AddMessage(state)
       IN IF quotation_raises(s)
          THEN state' = s /\ flow_error' = TRUE
          ELSE state' = quotation_node(s) /\ flow_error' = FALSE
    /\ UNCHANGED applications

FlowSubmission ==
    \E contact \in BOOLEAN, created \in BOOLEAN :
       /\ RoutedTo("submission")
       /\ LET s == AddMessage(state)
              called == SubmissionCreates(s, contact)
          IN /\ called => applications < MaxApplications
             /\ state' = submission_node(s, contact, created, applications + 1)
             /\ applications' = IF called /\ created THEN applications + 1 ELSE applications
       /\ flow_error' = FALSE

FlowStatusCheck ==
    \E lookup \in StatusLookups :
       /\ RoutedTo("status_check")
       /\ state' = status_check_node(AddMessage(state), lookup)
       /\ UNCHANGED applications
       /\ flow_error' = FALSE

FlowEnd ==
    /\ RoutedTo("END")
    /\ state' = AddMessage(state)
    /\ UNCHANGED applications
    /\ flow_error' = FALSE

NextFlow ==
    \/ FlowRouter
    \/ FlowSearchParam
    \/ FlowMarketSearch
    \/ FlowProfiling
    \/ FlowQuotation
    \/ FlowSubmission
    \/ FlowStatusCheck
    \/ FlowEnd

(***************************************************************************)
(* The AutoFinanceState workflow (state.py, nodes/parse_search.py,         *)
(* validation.py, execute_search.py, selection.py, profiling.py,           *)
(* lead_capture.py): current_phase names the handler of the next message   *)
(***************************************************************************)
InitLead ==
    /\ af = [current_phase |-> "onboarding", reply |-> "none",
             search_params |-> None, search_results |-> <<>>,
             selected_vehicle |-> None, monthly_income |-> None,
             employment_type |-> None, applicable_policy |-> None,
             financial_quote |-> None, customer_info |-> None, request_id |-> None]
    /\ saved = 0
    /\ last_node = "none"

\* the tools profiling_node invokes
get_credit_policy(vehicle, monthly_income, employment_type) ==
    retrieve_credit_policy(employment_type, monthly_income, vehicle)

calculate_installment(principal, annual_rate, tenure_months) ==
    calculate_monthly_installment(principal, annual_rate, tenure_months)

check_debt_burden_ratio(monthly_income, monthly_installment, max_dbr) ==
    check_affordability(monthly_installment, monthly_income, max_dbr)

\* nodes/parse_search.parse_search_node: parsed is None when the LLM's answer holds
\* no usable JSON object
parse_search_node(s, parsed) ==
    IF parsed = None THEN [s EXCEPT !.reply = "ask_search", !.current_phase = "onboarding"]
    ELSE [s EXCEPT !.reply = "confirm_search", !.search_params = parsed,
                   !.current_phase = "validation"]

\* nodes/validation.validation_node: confirms is whether the message holds one of
\* the confirmation words
validation_node(s, confirms) ==
    IF s.search_params = None
    THEN [s EXCEPT !.reply = "ask_search", !.current_phase = "onboarding"]
    ELSE IF confirms THEN [s EXCEPT !.current_phase = "execute_search"]
    ELSE [s EXCEPT !.current_phase = "parse_search"]

\* nodes/execute_search.execute_search_node: vehicles is what the search and the
\* parse of its raw results yield (empty when either yields nothing)
execute_search_node(s, vehicles) ==
    IF s.search_params = None
    THEN [s EXCEPT !.reply = "ask_search", !.current_phase = "onboarding"]
    ELSE IF vehicles = <<>>
    THEN [s EXCEPT !.reply = "not_found", !.search_results = <<>>,
                   !.current_phase = "onboarding"]
    ELSE [s EXCEPT !.reply = "found", !.search_results = vehicles,
                   !.current_phase = "selection"]

\* nodes/selection.selection_node: idx is the index the LLM reads from the message
\* (0 when it cannot tell)
SelectionZeroBased(s, idx) ==
    IF s.search_results = <<>> THEN [s EXCEPT !.reply = "no_list"]
    ELSE IF 0 <= idx /\ idx < Len(s.search_results)
    THEN [s EXCEPT !.selected_vehicle = Some(s.search_results[idx + 1]),
                   !.reply = "selected"]
    ELSE [s EXCEPT !.reply = "select_again"]

selection_node(s, idx) ==
    IF s.search_results = <<>> THEN [s EXCEPT !.reply = "no_list"]
    ELSE IF 1 <= idx /\ idx <= Len(s.search_results)
    THEN [s EXCEPT !.selected_vehicle = Some(s.search_results[idx]), !.reply = "selected"]
    ELSE [s EXCEPT !.reply = "select_again"]

\* nodes/profiling.profiling_node: income and employment are what the patterns find
\* in the current message (None when they find nothing)
profiling_node(s, income, employment) ==
    IF s.selected_vehicle = None
    THEN [s EXCEPT !.reply = "select_first", !.current_phase = "onboarding"]
    ELSE IF income = None \/ employment = None
    THEN [s EXCEPT !.reply = "ask_profile", !.monthly_income = income,
                   !.employment_type = employment, !.current_phase = "profiling"]
    ELSE LET vehicle == s.selected_vehicle[1]
             policy == get_credit_policy(vehicle, income[1], employment[1])
             quote == calculate_installment(vehicle.price, policy.interest_rate,
                                            policy.max_tenure_months)
             profiled == [s EXCEPT !.monthly_income = income,
                                   !.employment_type = employment,
                                   !.applicable_policy = Some(policy)]
         IN IF ~policy.is_eligible
            THEN [profiled EXCEPT !.reply = "not_eligible", !.current_phase = "onboarding"]
            ELSE IF ~check_debt_burden_ratio(income[1], quote.monthly_installment,
                                             policy.max_debt_burden_ratio)
            THEN [profiled EXCEPT !.reply = "high_risk", !.financial_quote = Some(quote),
                                  !.current_phase = "onboarding"]
            ELSE [profiled EXCEPT !.reply = "quote", !.financial_quote = Some(quote),
                                  !.current_phase = "quotation"]

\* tools/supabase_client.save_application: the id of the inserted row, or an
\* "ERROR-..." string when the insert fails
SaveResult(inserted, row) ==
    IF inserted THEN [row |-> row, error |-> FALSE] ELSE [row |-> 0, error |-> TRUE]

\* whether lead_capture_node gets as far as calling save_application
LeadSaves(s, email) ==
    s.selected_vehicle # None /\ s.financial_quote # None /\ email

\* nodes/lead_capture.lead_capture_node: email is whether the message holds an
\* email address
lead_capture_node(s, email, inserted, row) ==
    IF s.selected_vehicle = None \/ s.financial_quote = None
    THEN [s EXCEPT !.reply = "start_over", !.current_phase = "onboarding"]
    ELSE IF ~email
    THEN [s EXCEPT !.reply = "ask_email", !.current_phase = "lead_capture"]
    ELSE [s EXCEPT !.reply = "submitted", !.customer_info = Some("contact"),
                   !.request_id = Some(SaveResult(inserted, row)),
                   !.current_phase = "onboarding"]


\* One turn of the AutoFinanceState workflow: the handler current_phase names runs
\* on the message; a handler that emits no message hands over to the handler its
\* new phase names within the same turn.
Handled(node) ==
    /\ last_node' = node
    /\ UNCHANGED <<avars, fvars, svars, cvars>>

LeadParseSearch ==
    /\ af.current_phase \in {"onboarding", "parse_search"}
    /\ \E parsed \in {None} \cup {Some(p) : p \in SearchParamsSet} :
          af' = parse_search_node(af, parsed)
    /\ Handled("parse_search")
    /\ UNCHANGED saved

LeadValidation ==
    /\ af.current_phase = "validation"
    /\ \E confirms \in BOOLEAN, vehicles \in Listings,
          parsed \in {None} \cup {Some(p) : p \in SearchParamsSet} :
          LET s == validation_node(af, confirms)
          IN CASE s.current_phase = "execute_search" ->
                    /\ af' = execute_search_node(s, vehicles)
                    /\ Handled("execute_search")
               [] s.current_phase = "parse_search" ->
                    /\ af' = parse_search_node(s, parsed)
                    /\ Handled("parse_search")
               [] OTHER ->
                    /\ af' = s
                    /\ Handled("validation")
    /\ UNCHANGED saved

\* a selected vehicle moves the conversation on to profiling
LeadSelection ==
    /\ af.current_phase = "selection"
    /\ \E idx \in 0..MaxListings :
          LET s == selection_node(af, idx)
          IN af' = IF s.reply = "selected" THEN [s EXCEPT !.current_phase = "profiling"]
                   ELSE s
    /\ Handled("selection")
    /\ UNCHANGED saved

LeadProfiling ==
    /\ af.current_phase = "profiling"
    /\ \E income \in {None} \cup {Some(i) : i \in Incomes},
          employment \in {None} \cup {Some(e) : e \in EmploymentTypes} :
          af' = profiling_node(af, income, employment)
    /\ Handled("profiling")
    /\ UNCHANGED saved

\* the reply to the quote's "Ready to apply?" and the replies that follow it
LeadCapture ==
    /\ af.current_phase \in {"quotation", "lead_capture"}
    /\ \E email \in BOOLEAN, inserted \in BOOLEAN :
          /\ LeadSaves(af, email) => saved < MaxApplications
          /\ af' = lead_capture_node(af, email, inserted, saved + 1)
          /\ saved' = IF LeadSaves(af, email) /\ inserted THEN saved + 1 ELSE saved
    /\ Handled("lead_capture")

NextLead ==
    \/ LeadParseSearch
    \/ LeadValidation
    \/ LeadSelection
    \/ LeadProfiling
    \/ LeadCapture

(***************************************************************************)
(* Serving requests: custom.load_model, custom.chat, MyAgent._invoke       *)
(***************************************************************************)
\* requests the host has passed to chat() whose response is still being read
MaxInFlight == 2
Slots == 1..MaxInFlight

\* thread ids clients send
Threads == {"t1", "t2"}

\* custom._extract_thread_id: extra_body["thread_id"] when present, else the
\* conversation header (requests that name no thread get a fresh uuid and are
\* not drawn here)
extract_thread_id(extra_thread, header) ==
    IF extra_thread # None THEN extra_thread[1] ELSE header

\* MyAgent._get_run_config with one thread for every request
RunConfigSharedThread(extra_thread, params_thread) == "t1"

\* MyAgent._get_run_config: extra_body["thread_id"] when set, else the
\* thread_id chat() stored in completion_create_params
get_run_config(extra_thread, params_thread) ==
    IF extra_thread # None THEN extra_thread[1] ELSE params_thread

\* the fields of the MyAgent state that decide the routing, as a thread without
\* checkpoint starts
EmptySession == [search_params |-> None, search_confirmed |-> FALSE]

\* a slot that serves no streaming request
IdleRequest ==
    [st |-> "none", thread_id |-> "none", key |-> "none", node |-> "END",
     local |-> EmptySession]

\* what a run's inputs can be: the router's intent, the criteria the extraction
\* yields (the routing reads only whether criteria are set), the confirmation
\* classifier's outcome
ServeParams == {p \in SearchParamsSet : p.make = "Toyota" /\ p.price_cap = "no_cap"}
TurnInputs == [intent : RouterIntents, params : ServeParams, outcome : ConfirmationOutcomes]

\* the inputs a node reads: the others are left at one value
InputsFor(node) ==
    {in \in TurnInputs : /\ node # "router" => in.intent = "chat"
                         /\ node # "check_confirmation" => in.outcome = "confirmed"}

\* one superstep of the MyAgent graph on the run's own copy of the state: the
\* node's update and the node the edges name next
GraphStep(node, s, in) ==
    CASE node = "router" ->
            [state |-> s,
             next |-> RouteDecision(s.search_params, s.search_confirmed,
                                    route_intent(in.intent))]
      [] node = "search_param" ->
            [state |-> [s EXCEPT !.search_params = Some(in.params)], next |-> "END"]
      [] node = "check_confirmation" ->
            LET upd == CASE in.outcome = "confirmed" -> [s EXCEPT !.search_confirmed = TRUE]
                         [] in.outcome = "cancelled" ->
                               [s EXCEPT !.search_confirmed = FALSE, !.search_params = None]
                         [] OTHER -> [s EXCEPT !.search_confirmed = FALSE]
                edge == should_execute_search(upd.search_params, upd.search_confirmed)
            IN IF edge \in DOMAIN ConfirmationEdges
               THEN [state |-> upd, next |-> ConfirmationEdges[edge]]
               ELSE [state |-> s, next |-> "END"]
      [] node = "market_search" ->
            [state |-> IF s.search_params = None THEN s
                       ELSE [s EXCEPT !.search_confirmed = TRUE],
             next |-> "respond"]
      [] node = "reset" -> [state |-> EmptySession, next |-> "END"]
      [] OTHER -> [state |-> s, next |-> "END"]

\* MyAgent._execute_graph_sync: the supersteps of one run up to END
RECURSIVE RunGraph(_, _, _)
RunGraph(node, s, in) ==
    IF node = "END" THEN s
    ELSE LET step == GraphStep(node, s, in)
         IN RunGraph(step.next, step.state, in)

InitServe ==
    /\ reqs = [r \in Slots |-> IdleRequest]
    /\ checkpoints = [t \in Threads |-> EmptySession]
    /\ acted = "none"

\* chat() for a request that does not stream: the single worker of the executor
\* runs agent.invoke to its end, which is the whole graph run
ChatSync ==
    /\ UNCHANGED <<avars, fvars, lvars, cvars>>
    /\ \E extra \in {None} \cup {Some(t) : t \in Threads}, header \in Threads,
          in \in TurnInputs :
          LET thread_id == extract_thread_id(extra, header)
              key == get_run_config(extra, thread_id)
          IN /\ checkpoints' = [checkpoints EXCEPT
                                   ![key] = RunGraph("router", checkpoints[key], in)]
             /\ acted' = thread_id
             /\ UNCHANGED reqs

\* chat() for a streaming request: agent.invoke returns the generator without
\* running a graph step, and the response object iterates it later
ChatStream ==
    /\ UNCHANGED <<avars, fvars, lvars, cvars>>
    /\ \E r \in Slots, extra \in {None} \cup {Some(t) : t \in Threads}, header \in Threads :
          LET thread_id == extract_thread_id(extra, header)
              key == get_run_config(extra, thread_id)
          IN /\ reqs[r].st = "none"
             /\ reqs' = [reqs EXCEPT ![r] = [st |-> "generator", thread_id |-> thread_id,
                                             key |-> key, node |-> "router",
                                             local |-> EmptySession]]
             /\ acted' = thread_id
             /\ UNCHANGED checkpoints

\* the streaming response asks the generator for its next item: one task of the
\* executor, in which the run loads the thread's checkpoint (on the first item)
\* or goes on from its own copy, runs one superstep and saves its copy
StreamNext ==
    /\ UNCHANGED <<avars, fvars, lvars, cvars>>
    /\ \E r \in Slots :
          /\ reqs[r].st \in {"generator", "running"}
          /\ LET req == reqs[r]
                 s == IF req.st = "generator" THEN checkpoints[req.key] ELSE req.local
             IN \E in \in InputsFor(req.node) :
                   LET step == GraphStep(req.node, s, in)
                   IN /\ checkpoints' = [checkpoints EXCEPT ![req.key] = step.state]
                      /\ reqs' = [reqs EXCEPT ![r] =
                                     IF step.next = "END" THEN IdleRequest
                                     ELSE [req EXCEPT !.st = "running", !.node = step.next,
                                                      !.local = step.state]]
                      /\ acted' = req.thread_id

NextServe ==
    \/ ChatSync
    \/ ChatStream
    \/ StreamNext

(***************************************************************************)
(* The calculator tools, called on their own                               *)
(***************************************************************************)
\* arguments the calls are made with: principals and prices in whole EGP, rates in
\* ten-thousandths (1800 is 0.18), tenures in months, ratios in percent
CalcPrincipals == {-1, 0, 1, 100000}

CalcRates == {-1, 0, 1800}

CalcTenures == {-1, 0, 8, 36, 60}

CalcInstallments == {0, 2500, 5000, 5001}

CalcIncomes == {-1, 0, 5000, 10000}

CalcRatios == {40, 50, 100}

CalcDebts == {0, 6000}

\* round(principal / tenure_months, 2) in hundredths of an EGP; at an exact tie the
\* float nearest to the quotient decides the direction (tie_up)
RoundCents(principal, tenure_months, tie_up) ==
    LET hundredths == (100 * principal) \div tenure_months
        twice_rest == 2 * ((100 * principal) % tenure_months)
    IN IF twice_rest > tenure_months THEN hundredths + 1
       ELSE IF twice_rest < tenure_months THEN hundredths
       ELSE IF tie_up THEN hundredths + 1 ELSE hundredths

\* a zero-rate quote that cuts the installment off instead of rounding it
FinancialQuoteTruncates(principal, annual_interest_rate, tenure_months, tie_up) ==
    IF annual_interest_rate = 0
    THEN [monthly_installment |-> (100 * principal) \div tenure_months,
          total_interest |-> 0,
          total_amount |-> 100 * principal]
    ELSE LET m == calculate_monthly_installment(principal, annual_interest_rate,
                                                tenure_months).monthly_installment
         IN [monthly_installment |-> 100 * m,
             total_interest |-> 100 * (m * tenure_months - principal),
             total_amount |-> 100 * m * tenure_months]

\* the amounts of the FinancialQuote calculate_monthly_installment returns, in
\* hundredths of an EGP (the PMT branch to the whole EGP)
FinancialQuote(principal, annual_interest_rate, tenure_months, tie_up) ==
    IF annual_interest_rate = 0
    THEN [monthly_installment |-> RoundCents(principal, tenure_months, tie_up),
          total_interest |-> 0,
          total_amount |-> 100 * principal]
    ELSE LET m == calculate_monthly_installment(principal, annual_interest_rate,
                                                tenure_months).monthly_installment
         IN [monthly_installment |-> 100 * m,
             total_interest |-> 100 * (m * tenure_months - principal),
             total_amount |-> 100 * m * tenure_months]

\* tools/calculator.calculate_loan_options for one policy: 20% downpayment, PMT, and
\* current_dbr = (installment + existing_debt) / user_income, 1.0 without an income
calculate_loan_options(vehicle_price, user_income, existing_debt, interest_rate, max_tenure_months, max_dbr) ==
    LET principal == (vehicle_price * 8) \div 10
        installment == calculate_monthly_installment(principal, interest_rate,
                                                     max_tenure_months).monthly_installment
        total_obligation == installment + existing_debt
    IN [principal |-> principal,
        monthly_installment |-> installment,
        is_affordable |-> IF user_income > 0
                          THEN total_obligation * 100 <= max_dbr * user_income
                          ELSE 100 <= max_dbr]

InitCalc ==
    /\ quote_call = None
    /\ afford_call = None
    /\ options_call = None

\* one call of calculate_monthly_installment: ValueError and no quote, or a quote
CalcInstallment ==
    /\ \E principal \in CalcPrincipals, annual_interest_rate \in CalcRates,
          tenure_months \in CalcTenures, tie_up \in BOOLEAN :
          LET raised == calculate_raises(principal, annual_interest_rate, tenure_months)
          IN quote_call' = Some([principal |-> principal,
                                 annual_interest_rate |-> annual_interest_rate,
                                 tenure_months |-> tenure_months,
                                 raised |-> raised,
                                 quote |-> IF raised THEN None
                                           ELSE Some(FinancialQuote(principal,
                                                                    annual_interest_rate,
                                                                    tenure_months, tie_up))])
    /\ afford_call' = None
    /\ options_call' = None
    /\ UNCHANGED <<avars, fvars, lvars, svars>>

\* one call of check_affordability, as quotation_node makes it: the applicant's
\* existing monthly debt (existing_debt) is no argument of it
CalcAffordability ==
    /\ \E monthly_installment \in CalcInstallments, monthly_income \in CalcIncomes,
          max_debt_burden_ratio \in CalcRatios, existing_debt \in CalcDebts :
          afford_call' = Some([monthly_installment |-> monthly_installment,
                               monthly_income |-> monthly_income,
                               max_debt_burden_ratio |-> max_debt_burden_ratio,
                               existing_debt |-> existing_debt,
                               is_affordable |-> check_affordability(monthly_installment,
                                                                     monthly_income,
                                                                     max_debt_burden_ratio)])
    /\ quote_call' = None
    /\ options_call' = None
    /\ UNCHANGED <<avars, fvars, lvars, svars>>

\* one call of calculate_loan_options with one policy (test_calculator's: 500,000 EGP,
\* 15%, 60 months), at incomes on and next to the limit
CalcLoanOptions ==
    /\ \E existing_debt \in CalcDebts, max_dbr \in CalcRatios, at \in {"none", "negative",
                                                                     "limit", "below_limit",
                                                                     "test"} :
          LET owed == calculate_monthly_installment(400000, 1500, 60).monthly_installment
                      + existing_debt
              user_income == CASE at = "none" -> 0
                               [] at = "negative" -> -1
                               [] at = "limit" -> (owed * 100) \div max_dbr
                               [] at = "below_limit" -> (owed * 100) \div max_dbr - 1
                               [] at = "test" -> 30000
              option == calculate_loan_options(500000, user_income, existing_debt,
                                               1500, 60, max_dbr)
          IN options_call' = Some([user_income |-> user_income,
                                   existing_debt |-> existing_debt,
                                   max_dbr |-> max_dbr,
                                   monthly_installment |-> option.monthly_installment,
                                   is_affordable |-> option.is_affordable])
    /\ quote_call' = None
    /\ afford_call' = None
    /\ UNCHANGED <<avars, fvars, lvars, svars>>

NextCalc ==
    \/ CalcInstallment
    \/ CalcAffordability
    \/ CalcLoanOptions

(***************************************************************************)
(* Specifications: one per workflow, over the same variables               *)
(***************************************************************************)
Init == InitAgent /\ InitFlow /\ InitLead /\ InitServe /\ InitCalc

SpecAgent == Init /\ [][NextAgent]_vars

SpecFlow == Init /\ [][NextFlow]_vars

SpecLead == Init /\ [][NextLead]_vars

SpecServe == Init /\ [][NextServe]_vars

SpecCalc == Init /\ [][NextCalc]_vars

(***************************************************************************)
(* Properties of MyAgent                                                   *)
(***************************************************************************)
PendingConfirmation == search_params # None /\ ~search_confirmed

C4_SearchOnlyWhenConfirmed ==
    /\ [](pc = "market_search" => (search_params # None /\ search_confirmed))
    /\ [][(~search_confirmed /\ search_confirmed') =>
             \/ pc = "check_confirmation" /\ confirm_intent' = "confirmed"
             \/ pc = "market_search"]_vars

\* the search is about to run in the turn whose reply was classified CONFIRMED
C4_Witness ==
    /\ pc = "market_search"
    /\ events = <<"router", "check_confirmation">>
    /\ confirm_intent = "confirmed"

\* C9: a pending search is resumed once: the search runs only in the turn in which
\* check_confirmation has just classified the reply, so a further confirming reply
\* with no new confirmation request in between does not run it again.
C9_SearchRunsOnlyOnResume ==
    pc = "market_search" =>
        (events # <<>> /\ events[Len(events)] = "check_confirmation")

(***************************************************************************)
(* Properties of the AgentState workflow                                   *)
(***************************************************************************)
\* C3: while awaiting_confirmation is set, route_initial does not route a message
\* that matches the status-check pattern to status_check.
C3_StatusCheckYieldsToConfirmation ==
    state.awaiting_confirmation # None =>
        \A m \in FlowMessages :
            m.status => route_initial(AddMessage(state), m) # "status_check"

\* C6: create_application is called at most once in a conversation, so request_id,
\* once set, is never replaced.
C6_AtMostOneApplication == applications <= 1

\* C8: the turn that processes the reply to a pending confirmation (it runs the
\* confirmed search or the confirmed submission) leaves awaiting_confirmation null.
C8_ConfirmationClearedOnReply ==
    [][(state.awaiting_confirmation # None
          /\ last_route' \in {"market_search", "submission"}) =>
             state'.awaiting_confirmation = None]_vars

(***************************************************************************)
(* Properties of both state schemas                                        *)
(***************************************************************************)
\* C5: whenever request_id is set, current_phase is Completed.
C5_RequestIdImpliesCompleted ==
    /\ state.request_id # None => state.current_phase = "completed"
    /\ af.request_id # None => af.current_phase = "completed"

\* C7: whenever financial_quote is set, selected_vehicle is set and
\* applicable_policy is set and eligible.
C7_QuoteImpliesEligiblePolicy ==
    /\ state.financial_quote # None =>
          /\ state.selected_vehicle # None
          /\ state.applicable_policy # None
          /\ state.applicable_policy[1].is_eligible
    /\ af.financial_quote # None =>
          /\ af.selected_vehicle # None
          /\ af.applicable_policy # None
          /\ af.applicable_policy[1].is_eligible

\* C10: monthly_income and employment_type, once set, are not reset to null by a
\* later turn.
C10_ProfileNeverReset ==
    [][/\ state.monthly_income # None => state'.monthly_income # None
       /\ state.employment_type # None => state'.employment_type # None
       /\ af.monthly_income # None => af'.monthly_income # None
       /\ af.employment_type # None => af'.employment_type # None]_vars

(***************************************************************************)
(* Properties of vehicle selection and of the search results               *)
(***************************************************************************)
\* C11: selected_vehicle, once set, is not overwritten by a later turn (neither
\* workflow below has a restart that could come in between).
C11_SelectedVehicleKept ==
    [][/\ state.selected_vehicle # None => state'.selected_vehicle = state.selected_vehicle
       /\ af.selected_vehicle # None => af'.selected_vehicle = af.selected_vehicle]_vars

\* C12: non-empty search_results stand next to the search_params that produced
\* them: the criteria are set, and a step that changes the criteria does not keep
\* the listings of the earlier search.
C12_ListingsMatchCriteria ==
    /\ [](/\ search_results # <<>> => search_params # None
          /\ state.search_results # <<>> => state.search_params # None
          /\ af.search_results # <<>> => af.search_params # None)
    /\ [][/\ (search_results # <<>> /\ search_params' # search_params) =>
                search_results' = <<>>
          /\ (state.search_results # <<>> /\ state'.search_params # state.search_params) =>
                state'.search_results = <<>>
          /\ (af.search_results # <<>> /\ af'.search_params # af.search_params) =>
                af'.search_results = <<>>]_vars

\* C13: search_results never holds more than 5 vehicles, whatever the search
\* collaborator or the parser returns.
C13_AtMostFiveListings ==
    /\ Len(search_results) <= MaxResults
    /\ Len(state.search_results) <= MaxResults
    /\ Len(af.search_results) <= MaxResults

(***************************************************************************)
(* Properties of reset and of the confirmation replies (MyAgent)           *)
(***************************************************************************)
\* the turn that just ended ran the reset node
ResetTurnEnded == pc = "END" /\ events # <<>> /\ events[Len(events)] = "reset"

C15_FreshSearchAfterReset ==
    /\ [](reply = "reset_ack" =>
            (search_params = None /\ search_results = <<>> /\ ~search_confirmed))
    /\ [][(pc = "router" /\ reply = "reset_ack" /\ next_node' = "search_param") =>
             pc' = "search_param"]_vars

\* a new extraction is about to run right after a reset that followed an executed search
C15_Witness ==
    /\ pc = "search_param"
    /\ reply = "reset_ack"
    /\ confirm_intent = "confirmed"

(***************************************************************************)
(* Properties of selection and profiling                                   *)
(***************************************************************************)
\* C16: selection by index. With N listings, an index i in 1..N sets
\* selected_vehicle to the i-th listing; an index that is 0 (not determinable) or
\* greater than N changes neither selected_vehicle nor the phase and only
\* re-prompts; with no listings the node only tells the user to search first.
C16_SelectionByIndex ==
    \A idx \in 0..(MaxListings + 1) :
        LET s == selection_node(af, idx)
            N == Len(af.search_results)
        IN /\ (1 <= idx /\ idx <= N) =>
                 /\ s.selected_vehicle = Some(af.search_results[idx])
                 /\ s.current_phase = af.current_phase
           /\ (N > 0 /\ (idx < 1 \/ idx > N)) =>
                 s = [af EXCEPT !.reply = "select_again"]
           /\ N = 0 => s = [af EXCEPT !.reply = "no_list"]

\* the second of two listings was selected by its index
C16_Witness ==
    /\ last_node = "selection"
    /\ af.reply = "selected"
    /\ Len(af.search_results) = 2
    /\ af.selected_vehicle = Some(af.search_results[2])
    /\ af.search_results[1] # af.search_results[2]

\* C17: a reply to a pending search confirmation that is classified CANCELLED
\* clears search_params, leaves search_confirmed false, does not run market_search
\* and ends the turn with the acknowledgement, with no confirmation pending
\* afterwards.
C17_CancelClearsPending ==
    [][(pc = "check_confirmation" /\ confirm_intent' = "cancelled") =>
          /\ search_params' = None
          /\ ~search_confirmed'
          /\ pc' = "END"
          /\ reply' = "cancelled_ack"
          /\ ~turn_error']_vars

\* C18: an inconclusive reply to a pending search confirmation (classified
\* UNCLEAR, or the classifier call fails) does not run the search, keeps
\* search_params, re-prompts the user and leaves the same confirmation pending.
C18_UnclearReprompts ==
    [][(pc = "check_confirmation" /\ confirm_intent' \in {"unclear", "error"}) =>
          /\ pc' = "END"
          /\ search_params' = search_params
          /\ ~search_confirmed'
          /\ search_params' # None
          /\ reply' \in {"unclear_prompt", "error_prompt"}
          /\ ~turn_error']_vars

\* ---------------------------------------------------------------------------
\* Properties of the profiling turn (AgentState workflow)
\* ---------------------------------------------------------------------------

\* C19: in a profiling turn the eligibility evaluation runs only when
\* selected_vehicle, monthly_income and employment_type are all set; otherwise
\* the turn asks for the first missing item in the order vehicle, income,
\* employment, and the phase does not become quotation.
C19_EvaluationNeedsFullProfile ==
    [][last_route' = "profiling_logic" =>
          /\ state'.reply \notin {"no_income", "no_employment"}
          /\ state'.reply \in {"eligible", "not_eligible"} =>
                /\ state'.selected_vehicle # None
                /\ state'.monthly_income # None
                /\ state'.employment_type # None
          /\ state'.selected_vehicle = None =>
                /\ state'.reply \in {"select_vehicle", "no_vehicle"}
                /\ state'.current_phase # "quotation"
          /\ (state'.selected_vehicle # None /\ state'.monthly_income = None) =>
                /\ state'.reply = "ask_income"
                /\ state'.current_phase = "profiling"
          /\ (/\ state'.selected_vehicle # None
              /\ state'.monthly_income # None
              /\ state'.employment_type = None) =>
                /\ state'.reply = "ask_employment"
                /\ state'.current_phase = "profiling"
          /\ (/\ state'.selected_vehicle # None
              /\ state'.monthly_income # None
              /\ state'.employment_type # None) =>
                state'.reply \in {"eligible", "not_eligible"}]_vars

\* a profiling turn that asked for the employment type, income and vehicle known
C19_Witness ==
    /\ last_route = "profiling_logic"
    /\ state.reply = "ask_employment"
    /\ state.selected_vehicle # None
    /\ state.monthly_income # None
    /\ state.employment_type = None

\* C20: an eligibility evaluation that returns is_eligible false puts the session
\* back in discovery with the rejection stored, and the user's next message, when
\* it picks another listing, is handled by the profiling turn, which makes that
\* listing the selected vehicle; an evaluation that returns is_eligible true
\* makes the phase quotation.
C20_IneligibleAllowsReselection ==
    /\ (last_route = "profiling_logic" /\ state.reply = "eligible") =>
          state.current_phase = "quotation"
    /\ (last_route = "profiling_logic" /\ state.reply = "not_eligible") =>
          /\ state.current_phase = "discovery"
          /\ state.applicable_policy # None
          /\ ~state.applicable_policy[1].is_eligible
          /\ \A pick \in 1..Len(state.search_results) :
                state.search_results[pick] # state.selected_vehicle[1] =>
                   LET m == [head |-> "other", status |-> FALSE]
                       s == profiling_logic_node(AddMessage(state), pick, None, None)
                   IN /\ route_initial(AddMessage(state), m) = "profiling_logic"
                      /\ s.selected_vehicle = Some(state.search_results[pick])

\* ---------------------------------------------------------------------------
\* Properties of the quotation turn (AgentState workflow)
\* ---------------------------------------------------------------------------

\* whether the stored quote of s passes the affordability check of quotation_node
QuoteAffordable(s) ==
    /\ s.financial_quote # None
    /\ s.applicable_policy # None
    /\ s.monthly_income # None
    /\ check_affordability(s.financial_quote[1].monthly_installment, s.monthly_income[1],
                           s.applicable_policy[1].max_debt_burden_ratio)

\* C21: from quotation a turn reaches submission only when a quote that passed
\* the affordability check is awaiting confirmation; a quotation turn whose
\* affordability check fails keeps the phase at quotation with the warning, and
\* the turn after it does not reach submission.
C21_SubmissionNeedsAffordableQuote ==
    [][/\ (state.current_phase = "quotation" /\ last_route' = "submission") =>
             /\ state.awaiting_confirmation = Some("quote")
             /\ QuoteAffordable(state)
       /\ (last_route' = "quotation" /\ state'.reply = "not_affordable") =>
             /\ state'.current_phase = "quotation"
             /\ ~QuoteAffordable(state')
       /\ (last_route = "quotation" /\ state.reply = "not_affordable") =>
             last_route' # "submission"]_vars

\* a confirmed affordable quote reached submission
C21_Witness ==
    /\ last_route = "submission"
    /\ state.reply \in {"ask_contact", "submitted"}
    /\ QuoteAffordable(state)

\* ---------------------------------------------------------------------------
\* Properties of the credit policy lookup
\* ---------------------------------------------------------------------------

\* what retrieve_credit_policy has to return for an applicant
PolicyVerdictRight(employment_type, monthly_income, vehicle, policy) ==
    LET params == FALLBACK_POLICIES[employment_type]
        age == CurrentYear - vehicle.year
    IN /\ policy.is_eligible <=> (monthly_income >= params.min_income
                                  /\ age <= params.max_vehicle_age)
       /\ policy.is_eligible => policy.rejection_reason = None
       /\ monthly_income < params.min_income =>
             policy.rejection_reason = Some([criterion |-> "income",
                                             limit |-> params.min_income,
                                             actual |-> monthly_income])
       /\ (monthly_income >= params.min_income /\ age > params.max_vehicle_age) =>
             policy.rejection_reason = Some([criterion |-> "vehicle_age",
                                             limit |-> params.max_vehicle_age,
                                             actual |-> age])

\* C22: retrieve_credit_policy returns is_eligible true exactly when the income
\* reaches the policy's min_income and the vehicle's age does not exceed its
\* max_vehicle_age; otherwise the rejection reason names the failing criterion
\* with the limit and the applicant's value, the income when both fail. Stated
\* for every employment type with incomes and ages on both sides of each limit,
\* and for the policy an evaluation stored in the session.
C22_EligibilityVerdict ==
    /\ \A e \in DOMAIN FALLBACK_POLICIES :
          LET params == FALLBACK_POLICIES[e]
          IN \A income \in (params.min_income - 1)..(params.min_income + 1),
                age \in (params.max_vehicle_age - 1)..(params.max_vehicle_age + 1) :
                LET vehicle == [year |-> CurrentYear - age, price |-> 400000]
                IN PolicyVerdictRight(e, income, vehicle,
                                      retrieve_credit_policy(e, income, vehicle))
    /\ (last_route = "profiling_logic" /\ state.reply \in {"eligible", "not_eligible"}) =>
          PolicyVerdictRight(state.employment_type[1], state.monthly_income[1],
                             state.selected_vehicle[1], state.applicable_policy[1])

\* an evaluation of an applicant who fails both criteria reported the income
C22_Witness ==
    /\ last_route = "profiling_logic"
    /\ state.reply = "not_eligible"
    /\ state.monthly_income[1] < state.applicable_policy[1].min_income
    /\ get_vehicle_age(state.selected_vehicle[1]) > state.applicable_policy[1].max_vehicle_age
    /\ state.applicable_policy[1].rejection_reason[1].criterion = "income"

\* C23: a quotation turn whose calculator input is invalid (a vehicle price or a
\* tenure that is not positive) ends with a reply, not with the calculator's
\* exception, and does not change the phase.
C23_CalculatorFailureCaught ==
    [][(last_route' = "quotation" /\ quotation_raises(AddMessage(state))) =>
          /\ ~flow_error'
          /\ state'.current_phase = state.current_phase]_vars

\* ---------------------------------------------------------------------------
\* Properties of failing collaborators
\* ---------------------------------------------------------------------------

\* C24: a turn in which the listing search fails leaves the persisted
\* conversation state as the turn found it: search_params, search_confirmed and
\* search_results are what they were when the turn started, and the user gets
\* the error message.
C24_FailedSearchLeavesState ==
    [][(pc = "market_search" /\ reply' = "search_failed") =>
          /\ search_params' = turn_start.search_params
          /\ search_confirmed' = turn_start.search_confirmed
          /\ search_results' = turn_start.search_results]_vars

\* C25: when storing the application fails, request_id stays unset and the phase
\* does not become completed, so that the submission can be retried; an error
\* value returned by the store is never recorded as the session's request_id.
C25_FailedStoreLeavesNoRequestId ==
    /\ [][(last_route' = "submission" /\ state'.reply = "submit_failed") =>
             /\ state'.request_id = state.request_id
             /\ state'.current_phase = state.current_phase]_vars
    /\ [](af.request_id # None => ~af.request_id[1].error)

\* ---------------------------------------------------------------------------
\* Properties of an empty search result
\* ---------------------------------------------------------------------------

\* C26: a confirmed search that returns no matching vehicle answers with the
\* empty-result message and leaves the conversation in its discovery phase; it
\* does not go back to onboarding.
C26_EmptyResultStaysInDiscovery ==
    [][/\ (last_node' = "execute_search" /\ af'.reply = "not_found") =>
             af'.current_phase # "onboarding"
       /\ (last_route' = "market_search" /\ state'.reply = "not_found") =>
             state'.current_phase = "discovery"]_vars

(***************************************************************************)
(* Properties of concurrent requests                                       *)
(***************************************************************************)
\* a streaming run that has loaded its thread's checkpoint and has not reached END
InFlight(r) == reqs[r].st = "running"

\* C27: at most one turn of a session is in flight at a time: no two runs of the
\* same thread are between their first and their last superstep together, and
\* while a run is in flight no other request's task saves a checkpoint of that
\* thread.
C27_OneTurnInFlightPerSession ==
    /\ [](\A r1, r2 \in Slots :
             (r1 # r2 /\ InFlight(r1) /\ InFlight(r2)) => reqs[r1].key # reqs[r2].key)
    /\ [][\A r \in Slots :
             (InFlight(r) /\ reqs'[r] = reqs[r]) =>
                checkpoints'[reqs[r].key] = checkpoints[reqs[r].key]]_vars

C29_ClosingAfterCompletedThanks ==
    [][(/\ state.request_id # None
        /\ route_initial(AddMessage(state), [head |-> "closing", status |-> FALSE]) = "END"
        /\ last_route' = "END") =>
          state' = [AddMessage(state) EXCEPT !.reply = "thanks"]]_vars

\* C30: a status check ends its turn and changes no phase: handled in
\* onboarding it leaves the session in onboarding, and whether the lookup finds
\* the application, finds nothing or fails, status_check_node leaves
\* current_phase, the search criteria, the listings, the selected vehicle, the
\* profile, the quote and request_id as they were.
C30_StatusCheckChangesNoPhase ==
    [][last_route' = "status_check" =>
          /\ state'.reply \in {"status_ask_id", "status", "status_not_found", "status_error"}
          /\ state'.current_phase = state.current_phase
          /\ state'.search_params = state.search_params
          /\ state'.search_params_confirmed = state.search_params_confirmed
          /\ state'.search_results = state.search_results
          /\ state'.selected_vehicle = state.selected_vehicle
          /\ state'.monthly_income = state.monthly_income
          /\ state'.employment_type = state.employment_type
          /\ state'.applicable_policy = state.applicable_policy
          /\ state'.financial_quote = state.financial_quote
          /\ state'.request_id = state.request_id]_vars

\* a status check whose lookup failed, handled in onboarding
C30_Witness ==
    /\ last_route = "status_check"
    /\ state.reply = "status_error"
    /\ state.current_phase = "onboarding"

(***************************************************************************)
(* Properties of the calculator tools                                      *)
(***************************************************************************)
\* C31: calculate_monthly_installment raises, and returns no quote, whenever
\* principal <= 0, the annual rate < 0 or tenure_months <= 0; such an input is never
\* replaced by a valid one
C31_InvalidInputRaises ==
    quote_call # None =>
        LET c == quote_call[1]
        IN (c.principal <= 0 \/ c.annual_interest_rate < 0 \/ c.tenure_months <= 0)
               => (c.raised /\ c.quote = None)

C31_Witness ==
    /\ quote_call # None
    /\ quote_call[1].principal = 0
    /\ quote_call[1].annual_interest_rate = 1800
    /\ quote_call[1].tenure_months = 60
    /\ quote_call[1].raised
    /\ quote_call[1].quote = None

\* C32 as stated: at a zero annual rate and a positive principal and tenure the
\* monthly installment is principal / tenure_months exactly, total_interest is 0 and
\* the total payment is the principal
C32_ZeroRateExact ==
    (quote_call # None /\ ~quote_call[1].raised /\ quote_call[1].annual_interest_rate = 0) =>
        LET c == quote_call[1]
            q == c.quote[1]
        IN /\ q.monthly_installment * c.tenure_months = 100 * c.principal
           /\ q.total_interest = 0
           /\ q.total_amount = 100 * c.principal

\* C32 amended: at a zero annual rate and a positive principal and tenure the monthly
\* installment is principal / tenure_months rounded to two decimals (within half a
\* hundredth of the quotient), total_interest is 0 and the total payment is the
\* principal
C32_ZeroRateRounded ==
    (quote_call # None /\ ~quote_call[1].raised /\ quote_call[1].annual_interest_rate = 0) =>
        LET c == quote_call[1]
            q == c.quote[1]
            off == q.monthly_installment * c.tenure_months - 100 * c.principal
        IN /\ 2 * off <= c.tenure_months
           /\ 2 * off >= 0 - c.tenure_months
           /\ q.total_interest = 0
           /\ q.total_amount = 100 * c.principal

C32_Witness ==
    /\ quote_call # None
    /\ quote_call[1].principal = 100000
    /\ quote_call[1].annual_interest_rate = 0
    /\ quote_call[1].tenure_months = 36
    /\ quote_call[1].quote # None
    /\ quote_call[1].quote[1].monthly_installment = 277778
    /\ quote_call[1].quote[1].total_amount = 10000000

\* C33: the affordability limit is inclusive: with an income, a debt burden ratio
\* equal to max_debt_burden_ratio is affordable and every ratio above it is not, in
\* check_affordability and in calculate_loan_options
C33_InclusiveBoundary ==
    /\ (afford_call # None /\ afford_call[1].monthly_income > 0) =>
           LET c == afford_call[1]
               owed == c.monthly_installment * 100
               limit == c.max_debt_burden_ratio * c.monthly_income
           IN /\ owed = limit => c.is_affordable
              /\ owed > limit => ~c.is_affordable
    /\ (options_call # None /\ options_call[1].user_income > 0) =>
           LET c == options_call[1]
               owed == (c.monthly_installment + c.existing_debt) * 100
               limit == c.max_dbr * c.user_income
           IN /\ owed = limit => c.is_affordable
              /\ owed > limit => ~c.is_affordable

C33_Witness ==
    /\ afford_call # None
    /\ afford_call[1].monthly_installment = 5000
    /\ afford_call[1].monthly_income = 10000
    /\ afford_call[1].max_debt_burden_ratio = 50
    /\ afford_call[1].is_affordable

\* C34: without an income (monthly_income <= 0) the affordability check reports the
\* loan as not affordable, whatever the installment and the maximum ratio, in
\* check_affordability and in calculate_loan_options
C34_NoIncomeNeverAffordable ==
    /\ (afford_call # None /\ afford_call[1].monthly_income <= 0)
           => ~afford_call[1].is_affordable
    /\ (options_call # None /\ options_call[1].user_income <= 0)
           => ~options_call[1].is_affordable

\* C35: the affordability decision counts the applicant's existing monthly debt: with
\* an income, the loan is affordable exactly when (installment + existing debt) is at
\* most max_debt_burden_ratio times the income, in the check quotation_node applies
\* and in calculate_loan_options
C35_ExistingDebtCounted ==
    /\ (afford_call # None /\ afford_call[1].monthly_income > 0) =>
           LET c == afford_call[1]
           IN c.is_affordable <=>
                  (c.monthly_installment + c.existing_debt) * 100
                      <= c.max_debt_burden_ratio * c.monthly_income
    /\ (options_call # None /\ options_call[1].user_income > 0) =>
           LET c == options_call[1]
           IN c.is_affordable <=>
                  (c.monthly_installment + c.existing_debt) * 100
                      <= c.max_dbr * c.user_income

(***************************************************************************)
(* Properties of the workflows, continued                                  *)
(***************************************************************************)
\* C36: while awaiting_confirmation is 'search', every message that is neither a
\* confirmation nor a status check is routed to search_param, and that turn runs no
\* search (search_results stay), stores the extracted criteria with
\* search_params_confirmed false and leaves awaiting_confirmation at 'search'
C36_OtherReplyReextracts ==
    /\ [](state.awaiting_confirmation = Some("search") =>
              \A m \in FlowMessages :
                  (m.head # "confirm" /\ ~m.status)
                      => route_initial(AddMessage(state), m) = "search_param")
    /\ [][(state.awaiting_confirmation = Some("search") /\ last_route' = "search_param") =>
              /\ state'.search_results = state.search_results
              /\ state'.search_params \in {Some(p) : p \in FlowParams}
              /\ state'.search_params_confirmed = FALSE
              /\ state'.awaiting_confirmation = Some("search")
              /\ state'.current_phase = "discovery"]_vars

\* C37: every turn of the MyAgent graph ends at END without an exception: every value
\* _route_decision and should_execute_search return names an edge of the graph, and
\* a turn runs router and at most three further nodes
C37_TurnsEndOnExistingEdges ==
    /\ ~turn_error
    /\ Len(events) <= 4
    /\ pc \in {"END", "router", "search_param", "check_confirmation", "market_search",
               "respond", "reset"}

\* C38: once a search is confirmed (search_params set, search_confirmed true), every
\* turn the router does not classify as reset is routed to market_search, whatever
\* the classification, and search_params change only in the reset node
C38_ConfirmedSearchSticks ==
    [][(search_params # None /\ search_confirmed) =>
          /\ (pc = "router" /\ pc' # "router" /\ next_node' # "reset")
                 => pc' = "market_search"
          /\ (search_params' # search_params => pc = "reset")
          /\ (~search_confirmed' => pc = "reset")]_vars

C38_Witness ==
    /\ turn_start.search_params # None
    /\ turn_start.search_confirmed
    /\ next_node = "search_param"
    /\ events = <<"router">>
    /\ pc = "market_search"

\* submission_node on s, for every message and every outcome of the store: the store
\* is called (replies "submitted" and "submit_failed") only with contact information,
\* vehicle and quote present, and without one of them request_id stays as it was
SubmissionNeedsAllThree(s) ==
    \A contact \in BOOLEAN, created \in BOOLEAN :
       LET t == submission_node(s, contact, created, 1)
           present == /\ s.customer_info # None \/ contact
                      /\ s.selected_vehicle # None
                      /\ s.financial_quote # None
       IN /\ t.reply \in {"submitted", "submit_failed"} => present
          /\ SubmissionCreates(s, contact) => present
          /\ ~present => t.request_id = s.request_id

\* lead_capture_node on s, likewise: save_application is called (reply "submitted")
\* only with an email address in the message, a vehicle and a quote
LeadCaptureNeedsAllThree(s) ==
    \A email \in BOOLEAN, inserted \in BOOLEAN :
       LET t == lead_capture_node(s, email, inserted, 1)
           present == email /\ s.selected_vehicle # None /\ s.financial_quote # None
       IN /\ t.reply = "submitted" => present
          /\ LeadSaves(s, email) => present
          /\ ~present => t.request_id = s.request_id

\* C39: an application is stored only when contact information, a selected vehicle
\* and a financial quote are all present: submission_node and lead_capture_node call
\* the store in no state that lacks one of them (checked on the reachable state and
\* on the same state with the vehicle, the quote or both taken away), a turn that
\* lacks one leaves request_id as it was, and a row is added only by a submission
\* turn that started with vehicle and quote and ends with a request_id
C39_StoreNeedsAllThree ==
    /\ [](\A v \in {None, state.selected_vehicle}, q \in {None, state.financial_quote} :
             /\ SubmissionNeedsAllThree([state EXCEPT !.selected_vehicle = v,
                                                      !.financial_quote = q])
             /\ LeadCaptureNeedsAllThree([af EXCEPT !.selected_vehicle = v,
                                                    !.financial_quote = q]))
    /\ [][applications' # applications =>
              /\ last_route' = "submission"
              /\ state.selected_vehicle # None
              /\ state.financial_quote # None
              /\ state'.request_id = Some(applications')]_vars

C39_Witness ==
    /\ last_route = "submission"
    /\ state.reply = "submitted"
    /\ applications = 1
    /\ state.request_id = Some(1)
    /\ state.selected_vehicle # None
    /\ state.financial_quote # None

\* a list of n different listings, as state.search_results holds them
NumberedListings(n) == [i \in 1..n |-> [year |-> 2026 - i, price |-> 400000]]

====
